---- MODULE Spec2Model ----
(***************************************************************************)
(* Model of the TimePRO MCP server: the tool-call handler registered for   *)
(* CallToolRequestSchema (src/unnamed/part_002, third variant, lines       *)
(* 1285-1948) and the HTTP client TimeProClient (src/src/timepro-client.ts)*)
(*                                                                         *)
(* Value encoding.                                                         *)
(*   - A JavaScript value that may be undefined is a set of at most one    *)
(*     element: {} is undefined, {v} is the value v.                       *)
(*   - A clock-time string is the tuple of its ":"-separated numeric       *)
(*     parts: "09:00" is <<9, 0>>, "18:00:00" is <<18, 0, 0>>, "" is <<>>. *)
(*   - A date-time string "dTt" is the pair <<d, t>>.                      *)
(*   - A JavaScript number that results from a division is an exact        *)
(*     fraction [n, d] in lowest terms; NaN is [n |-> 0, d |-> 0].         *)
(***************************************************************************)
EXTENDS Integers, Sequences, FiniteSets, TLC

(***************************************************************************)
(* Bounds of the model.                                                    *)
(***************************************************************************)
MaxCalls == 2

MaxOverrides == 1

MaxMissing == 1

(***************************************************************************)
(* Optional values.                                                        *)
(***************************************************************************)
None == {}

Some(v) == {v}

Get(o) == CHOOSE x \in o : TRUE

\* JavaScript truthiness of a possibly-undefined string / clock time / number.
FalsyStr(o) == o = None \/ o = Some("")

FalsyTime(o) == o = None \/ o = Some(<<>>)

FalsyNum(o) == o = None \/ o = Some(0)

(***************************************************************************)
(* Numbers: exact fractions.                                               *)
(***************************************************************************)
Abs(x) == IF x < 0 THEN -x ELSE x

RECURSIVE GCD(_, _)
GCD(a, b) == IF b = 0 THEN a ELSE GCD(b, a % b)

NaN == [n |-> 0, d |-> 0]

\* the number num/den, den > 0
Frac(num, den) ==
    LET g == GCD(Abs(num), den)
    IN  [n |-> num \div g, d |-> den \div g]

IsNaN(x) == x.d = 0

FracAdd(x, y) ==
    IF IsNaN(x) \/ IsNaN(y) THEN NaN
    ELSE Frac(x.n * y.d + y.n * x.d, x.d * y.d)

\* x <= 0 as JavaScript evaluates it: false for NaN
FracLeqZero(x) == ~IsNaN(x) /\ x.n <= 0

\* the number x/60 for a possibly-undefined number of minutes
DivBy60(o) == IF o = None THEN NaN ELSE Frac(Get(o), 60)

(***************************************************************************)
(* Pure helpers of the dispatcher.                                         *)
(***************************************************************************)
\* startH * 60 + startM of a clock time "HH:MM[:SS]"
MinutesOfDay(time) == time[1] * 60 + time[2]

\* calculateHours without the subtraction of the break
calculateHours_ignoresBreak(startTime, endTime, breakMinutes) ==
    LET total == Frac(MinutesOfDay(endTime) - MinutesOfDay(startTime), 60)
    IN  [total |-> total, billable |-> total]

\* calculateHours(startTime, endTime, breakMinutes = 0): the default value
\* applies when the argument is undefined
calculateHours(startTime, endTime, breakMinutes) ==
    LET brk           == IF breakMinutes = None THEN 0 ELSE Get(breakMinutes)
        startMinutes  == MinutesOfDay(startTime)
        endMinutes    == MinutesOfDay(endTime)
        workedMinutes == endMinutes - startMinutes - brk
        total         == Frac(workedMinutes, 60)
    IN  [total |-> total, billable |-> total]

\* formatDateTime(date, time): the time gets ":00" unless it has three parts
formatDateTime(date, time) ==
    LET formattedTime == IF Len(time) = 3 THEN time ELSE Append(time, 0)
    IN  <<date, formattedTime>>

\* s.substring(0, 5) of a zero-padded "HH:MM:SS"
Substring05(time) == SubSeq(time, 1, 2)

\* s.split("T")[0] of a date-time string
SplitT0(dateTime) == dateTime[1]

\* a || b on possibly-undefined strings, clock times, numbers
OrStr(a, b) == IF FalsyStr(a) THEN b ELSE a

OrTime(a, b) == IF FalsyTime(a) THEN b ELSE a

OrNum(a, b) == IF FalsyNum(a) THEN b ELSE a

\* a !== undefined ? a : b
IfDefined(a, b) == IF a # None THEN a ELSE b

(***************************************************************************)
(* Tool arguments.  Every key of every tool, undefined unless given.       *)
(***************************************************************************)
NoArgs ==
    [search_text |-> None, client_id |-> None, project_id |-> None,
     category_id |-> None, date |-> None, start_time |-> None,
     end_time |-> None, break_minutes |-> None, location_id |-> None,
     billable_id |-> None, note |-> None, timesheet_id |-> None,
     start_date |-> None, end_date |-> None]

ToolNames ==
    {"list_clients", "list_projects", "list_categories", "list_locations",
     "get_timesheet_defaults", "list_timesheets", "get_timesheet",
     "create_timesheet", "update_timesheet", "delete_timesheet"}

ArgTimes == {<<9, 0>>, <<10, 0>>, <<18, 0, 0>>}

ArgBreaks == {None, Some(0), Some(60), Some(-120), Some(540)}

TimesheetIds == {None, Some(0), Some(7)}

\* the `required` list of each tool descriptor
RequiredOf(name) ==
    CASE name = "list_projects" -> {"client_id"}
      [] name = "get_timesheet_defaults" -> {"date"}
      [] name = "list_timesheets" -> {"start_date", "end_date"}
      [] name \in {"get_timesheet", "update_timesheet", "delete_timesheet"}
            -> {"timesheet_id"}
      [] name = "create_timesheet" ->
            {"client_id", "project_id", "category_id", "date", "start_time",
             "end_time", "location_id"}
      [] OTHER -> {}

\* the keys whose absence or emptiness create_timesheet rejects
CreateRequired ==
    {"client_id", "project_id", "category_id", "date", "start_time",
     "end_time", "location_id"}

EmptyOf(key) == IF key \in {"start_time", "end_time"} THEN <<>> ELSE ""

\* a complete create_timesheet argument bag
CreateBase(s, e, b, n, bill) ==
    [NoArgs EXCEPT !.client_id = Some("A"), !.project_id = Some("P"),
                   !.category_id = Some("C"), !.date = Some("D2"),
                   !.start_time = Some(s), !.end_time = Some(e),
                   !.break_minutes = b, !.location_id = Some("L"),
                   !.billable_id = bill, !.note = n]

\* bags with at most k of the given keys made undefined or empty
RECURSIVE Damaged(_, _, _)
Damaged(bags, keys, k) ==
    IF k = 0 THEN bags
    ELSE LET prev == Damaged(bags, keys, k - 1)
         IN  prev
             \cup {[a EXCEPT ![key] = None] : a \in prev, key \in keys}
             \cup {[a EXCEPT ![key] = Some(EmptyOf(key))] :
                       a \in prev, key \in keys}

CreateArgs ==
    {CreateBase(s, e, b, n, bill) :
        s \in ArgTimes, e \in ArgTimes, b \in ArgBreaks,
        n \in {None, Some("n")}, bill \in {None, Some("B")}}
    \cup Damaged({CreateBase(<<9, 0>>, <<18, 0, 0>>, Some(60), None, None),
                  CreateBase(<<9, 0>>, <<10, 0>>, Some(60), None, None)},
                 CreateRequired, MaxMissing)

UpdateIdKeys ==
    {"client_id", "project_id", "category_id", "location_id", "billable_id"}

\* the bags of a with one more key overridden
WithOverride(prev) ==
    {[a EXCEPT ![k] = Some(v)] :
        a \in prev, k \in UpdateIdKeys, v \in {"", "B"}}
    \cup {[a EXCEPT !.date = Some(v)] : a \in prev, v \in {"", "D2"}}
    \cup {[a EXCEPT ![k] = Some(v)] :
             a \in prev, k \in {"start_time", "end_time"},
             v \in {<<>>} \cup ArgTimes}
    \cup {[a EXCEPT !.break_minutes = v] :
             a \in prev, v \in ArgBreaks \ {None}}
    \cup {[a EXCEPT !.note = Some(v)] : a \in prev, v \in {"", "new"}}

RECURSIVE Overrides(_)
Overrides(k) ==
    IF k = 0 THEN {NoArgs}
    ELSE Overrides(k - 1) \cup WithOverride(Overrides(k - 1))

UpdateArgs ==
    {[a EXCEPT !.timesheet_id = Some(7)] : a \in Overrides(MaxOverrides)}
    \cup {[NoArgs EXCEPT !.timesheet_id = t] : t \in TimesheetIds}

ArgsFor(name) ==
    CASE name = "list_clients" ->
            {NoArgs, [NoArgs EXCEPT !.search_text = Some("x")]}
      [] name = "list_projects" ->
            Damaged({[NoArgs EXCEPT !.client_id = Some("A")]},
                    {"client_id"}, 1)
      [] name = "get_timesheet_defaults" ->
            Damaged({[NoArgs EXCEPT !.date = Some("D2")]}, {"date"}, 1)
      [] name = "list_timesheets" ->
            Damaged({[NoArgs EXCEPT !.start_date = Some("D1"),
                                    !.end_date = Some("D2")]},
                    {"start_date", "end_date"}, 1)
      [] name \in {"get_timesheet", "delete_timesheet"} ->
            {[NoArgs EXCEPT !.timesheet_id = t] : t \in TimesheetIds}
      [] name = "create_timesheet" -> CreateArgs
      [] name = "update_timesheet" -> UpdateArgs
      [] OTHER -> {NoArgs}

\* the argument bags offered when calls overlap: one complete bag per tool
OverlapArgsFor(name) ==
    CASE name = "list_projects" -> {[NoArgs EXCEPT !.client_id = Some("A")]}
      [] name = "get_timesheet_defaults" ->
            {[NoArgs EXCEPT !.date = Some("D2")]}
      [] name = "list_timesheets" ->
            {[NoArgs EXCEPT !.start_date = Some("D1"),
                            !.end_date = Some("D2")]}
      [] name \in {"get_timesheet", "update_timesheet", "delete_timesheet"}
            -> {[NoArgs EXCEPT !.timesheet_id = Some(7)]}
      [] name = "create_timesheet" ->
            {CreateBase(<<9, 0>>, <<18, 0, 0>>, Some(60), None, None)}
      [] OTHER -> {NoArgs}

(***************************************************************************)
(* Bodies the remote service can answer with.                              *)
(***************************************************************************)
\* the employee the API key and tenant id of this process belong to
RemoteEmpID == "E1"

Rates == {0, 150}

\* a full TimesheetDetails record (types.ts), durations in hours,
\* TimeLess in minutes
Details(start, end, less, note) ==
    [TimesheetID |-> Some(7), EmpID |-> Some("E1"), ClientID |-> Some("A"),
     ProjectID |-> Some("P"), CategoryID |-> Some("C"),
     LocationID |-> Some("L"), BillableID |-> Some("W"),
     DateCreated |-> Some(<<"D1", <<0, 0, 0>>>>),
     StartTime |-> Some(start), EndTime |-> Some(end),
     TimeLess |-> Some(less),
     TimeTotal |-> Some(Frac((end[1] - start[1]) * 60 + end[2] - start[2], 60)),
     TimeBillable |-> Some(Frac((end[1] - start[1]) * 60 + end[2] - start[2]
                                    - less, 60)),
     SellPrice |-> Some(150), SalesTaxPct |-> Some(Frac(1, 10)),
     Note |-> Some(note)]

\* the object {} read as a TimesheetDetails: every field undefined
EmptyDetails ==
    [TimesheetID |-> None, EmpID |-> None, ClientID |-> None,
     ProjectID |-> None, CategoryID |-> None, LocationID |-> None,
     BillableID |-> None, DateCreated |-> None, StartTime |-> None,
     EndTime |-> None, TimeLess |-> None, TimeTotal |-> None,
     TimeBillable |-> None, SellPrice |-> None, SalesTaxPct |-> None,
     Note |-> None]

StoredDetails == Details(<<9, 0, 0>>, <<18, 0, 0>>, 60, "old")

ExistingRecords ==
    {Details(s, e, l, n) :
        s \in {<<9, 0, 0>>, <<10, 0, 30>>},
        e \in {<<10, 0, 0>>, <<18, 0, 0>>},
        l \in {0, 60}, n \in {"", "old"}}
    \cup {[StoredDetails EXCEPT !.SalesTaxPct = Some(Frac(0, 1))],
          [StoredDetails EXCEPT !.SalesTaxPct = Some(Frac(1, 5))],
          [StoredDetails EXCEPT !.EmpID = Some("E2")],
          [StoredDetails EXCEPT !.BillableID = Some("")],
          [StoredDetails EXCEPT !.SellPrice = Some(0)],
          [StoredDetails EXCEPT !.TimeTotal = Some(Frac(7, 1)),
                                !.TimeBillable = Some(Frac(7, 1))]}

\* the parsed bodies a 2xx answer of an endpoint can carry
OkBodies(endpoint) ==
    CASE endpoint = "GetEmployeeID" -> {[EmpID |-> Some(RemoteEmpID)]}
      [] endpoint = "GetClientRate" -> {[Rate |-> Some(r)] : r \in Rates}
      [] endpoint = "GetEditTimesheetsView" -> ExistingRecords
      [] endpoint = "SaveTimesheet?isEdit=false" -> {StoredDetails}
      [] OTHER -> {[data |-> Some("json")]}

\* the object {} as the caller of fetch<T> reads it
EmptyObject(endpoint) ==
    CASE endpoint = "GetEmployeeID" -> [EmpID |-> None]
      [] endpoint = "GetClientRate" -> [Rate |-> None]
      [] endpoint \in {"GetEditTimesheetsView", "SaveTimesheet?isEdit=false"}
            -> EmptyDetails
      [] OTHER -> [data |-> None]

\* non-2xx answers: <<status, statusText, body text>>
ErrorReplies == {<<401, "Unauthorized", "denied">>, <<500, "Server Error", "">>}

OkResponse(body) ==
    [ok |-> TRUE, status |-> 200, statusText |-> "OK",
     text |-> [kind |-> "json", value |-> body]]

EmptyResponse ==
    [ok |-> TRUE, status |-> 200, statusText |-> "OK",
     text |-> [kind |-> "empty"]]

GarbageResponse ==
    [ok |-> TRUE, status |-> 200, statusText |-> "OK",
     text |-> [kind |-> "raw", raw |-> "<html>"]]

ErrResponse(e) ==
    [ok |-> FALSE, status |-> e[1], statusText |-> e[2],
     text |-> IF e[3] = "" THEN [kind |-> "empty"]
              ELSE [kind |-> "raw", raw |-> e[3]]]

(***************************************************************************)
(* Errors and the outcome of a tool call.                                  *)
(***************************************************************************)
NoError == [name |-> "", code |-> "", status |-> 0, text |-> ""]

McpError(code, message) ==
    [name |-> "McpError", code |-> code, status |-> 0, text |-> message]

\* an error message that leaves the status code out
ApiError_withoutStatus(status, text) ==
    [name |-> "Error", code |-> "", status |-> 0, text |-> text]

\* new Error(`TimePRO API error (${status}): ${text}`)
ApiError(status, text) ==
    [name |-> "Error", code |-> "", status |-> status, text |-> text]

SyntaxError ==
    [name |-> "SyntaxError", code |-> "", status |-> 0, text |-> "JSON.parse"]

TypeError(what) ==
    [name |-> "TypeError", code |-> "", status |-> 0, text |-> what]

Returned(v) == [threw |-> FALSE, error |-> NoError, value |-> v]

Threw(e) == [threw |-> TRUE, error |-> e, value |-> None]

NoOutcome ==
    [kind |-> "none", isError |-> FALSE, success |-> FALSE, error |-> NoError]

\* the handler returns a success payload
Success ==
    [kind |-> "result", isError |-> FALSE, success |-> TRUE, error |-> NoError]

\* a catch block that throws every error on
Catch_rethrowsAll(e) ==
    [kind |-> "thrown", isError |-> FALSE, success |-> FALSE, error |-> e]

\* the catch block of the handler: an McpError is thrown on to the protocol
\* layer, anything else becomes a failed-result payload
Catch(e) ==
    IF e.name = "McpError"
    THEN [kind |-> "thrown", isError |-> FALSE, success |-> FALSE, error |-> e]
    ELSE [kind |-> "result", isError |-> TRUE, success |-> FALSE, error |-> e]

(***************************************************************************)
(* TimeProClient.fetch, after the HTTP response has arrived.               *)
(***************************************************************************)
\* a fetch that does not look at response.ok
fetch_ignoresStatus(endpoint, response) ==
    IF response.text.kind = "empty" THEN Returned(EmptyObject(endpoint))
    ELSE IF response.text.kind = "json" THEN Returned(response.text.value)
    ELSE Threw(SyntaxError)

\* a fetch that answers a non-2xx response with an empty structure
fetch_swallowsFailure(endpoint, response) ==
    IF ~response.ok \/ response.text.kind = "empty"
    THEN Returned(EmptyObject(endpoint))
    ELSE IF response.text.kind = "json" THEN Returned(response.text.value)
    ELSE Threw(SyntaxError)

\* a fetch that hands the empty text to JSON.parse
fetch_parsesEmptyBody(endpoint, response) ==
    IF ~response.ok
    THEN Threw(ApiError(response.status,
                        IF response.text.kind = "empty"
                        THEN response.statusText ELSE response.text.raw))
    ELSE IF response.text.kind = "json" THEN Returned(response.text.value)
    ELSE Threw(SyntaxError)

fetch(endpoint, response) ==
    IF ~response.ok
    THEN Threw(ApiError(response.status,
                        IF response.text.kind = "empty"
                        THEN response.statusText ELSE response.text.raw))
    ELSE IF response.text.kind = "empty" THEN Returned(EmptyObject(endpoint))
    ELSE IF response.text.kind = "json" THEN Returned(response.text.value)
    ELSE Threw(SyntaxError)

(***************************************************************************)
(* State.                                                                  *)
(*   employeeId  the private field TimeProClient.employeeId                *)
(*   calls       the activations of the CallToolRequestSchema handler: for *)
(*               each, the await it is suspended at (pc), its locals, the  *)
(*               requests it has issued so far (reqs), the last response   *)
(*               it received (last) and its outcome                        *)
(*   env         process.env: the three settings read at load time         *)
(*   server      "loading" while the module body runs, "connected" once    *)
(*               main() has connected the transport, "exited" after        *)
(*               process.exit(1)                                           *)
(*   delivery    how the host delivers tool calls: "serial" (the next call *)
(*               after the previous one has returned), "overlapping", or   *)
(*               "sampled" (serial, one complete argument bag per tool)    *)
(***************************************************************************)
VARIABLES employeeId, calls, env, server, delivery

vars == <<employeeId, calls, env, server, delivery>>

\* what no tool call and no response ever changes
config == <<env, server, delivery>>

Calls == 1 .. MaxCalls

\* the value null of employeeId (no employee id is the string "<null>")
Null == {"<null>"}

\* no response received yet
NoResponse ==
    [endpoint |-> "", ok |-> TRUE, status |-> 0, kind |-> "", raw |-> ""]

IdleCall ==
    [pc |-> "idle", name |-> "", args |-> NoArgs, after |-> "",
     existing |-> None, empId |-> None, rateQuery |-> None,
     rateInfo |-> None, payload |-> None, reqs |-> <<>>,
     last |-> NoResponse, outcome |-> NoOutcome]

Started(name, args) == [IdleCall EXCEPT !.name = name, !.args = args]

\* the handler returns or throws
\* an outcome is recorded but the call is left where it was
Finish_staysPending(call, outcome) == [call EXCEPT !.outcome = outcome]

Finish(call, outcome) == [call EXCEPT !.pc = "done", !.outcome = outcome]

\* fetch() sends a request and the handler is suspended at the await
Request(call, endpoint, pc) ==
    [call EXCEPT !.pc = pc, !.reqs = Append(@, endpoint)]

\* the response arrives at the call that awaits it
Heard(call, response) ==
    [call EXCEPT !.last = [endpoint |-> call.reqs[Len(call.reqs)],
                           ok |-> response.ok, status |-> response.status,
                           kind |-> response.text.kind,
                           raw |-> IF response.text.kind = "raw"
                                   THEN response.text.raw ELSE ""]]

\* the endpoint whose answer a suspended call is waiting for
Pending(call) == call.reqs[Len(call.reqs)]

(***************************************************************************)
(* create_timesheet                                                        *)
(***************************************************************************)
\* getEmployeeId without the test of the cached value
CacheHit_never(cache) == FALSE

\* getEmployeeId: if (this.employeeId !== null) return this.employeeId
CacheHit(cache) == cache # Null

\* fetch(`/api/Timesheets/GetClientRate?empID=${empId}&clientID=${clientId}`)
RateRequest(call, empId) ==
    Request([call EXCEPT !.rateQuery =
                Some([empID |-> empId, clientID |-> call.args.client_id])],
            "GetClientRate", "await_rate")

\* a getClientRate that asks the service for the employee id every time
getClientRate_resolvesAgain(call, cache) ==
    Request([call EXCEPT !.after = "getClientRate"],
            "GetEmployeeID", "await_identity")

\* client.getClientRate up to its first await
getClientRate(call, cache) ==
    IF CacheHit(cache)
    THEN RateRequest(call, cache)
    ELSE Request([call EXCEPT !.after = "getClientRate"],
                 "GetEmployeeID", "await_identity")

\* the required-argument test without its last operand
CreateMissing_noLocation(args) ==
    \/ FalsyStr(args.client_id) \/ FalsyStr(args.project_id)
    \/ FalsyStr(args.category_id) \/ FalsyStr(args.date)
    \/ FalsyTime(args.start_time) \/ FalsyTime(args.end_time)

\* the required-argument test of create_timesheet
CreateMissing(args) ==
    \/ FalsyStr(args.client_id) \/ FalsyStr(args.project_id)
    \/ FalsyStr(args.category_id) \/ FalsyStr(args.date)
    \/ FalsyTime(args.start_time) \/ FalsyTime(args.end_time)
    \/ FalsyStr(args.location_id)

\* const breakMinutes = (args?.break_minutes as number) || 0
CreateBreak(args) == OrNum(args.break_minutes, Some(0))

CreateHours(args) ==
    calculateHours(Get(args.start_time), Get(args.end_time), CreateBreak(args))

\* a create that submits at an assumed rate without looking the rate up
createDerive_skipsRateLookup(call, cache, empId) ==
    IF FracLeqZero(CreateHours(call.args).billable)
    THEN Finish(call, Catch(McpError("InvalidParams", "Invalid time range")))
    ELSE Request([call EXCEPT !.empId = empId], "SaveTimesheet?isEdit=false",
                 "await_final")

\* create_timesheet from the resolved employee id to the rate lookup
createDerive(call, cache, empId) ==
    IF FracLeqZero(CreateHours(call.args).billable)
    THEN Finish(call, Catch(McpError("InvalidParams", "Invalid time range")))
    ELSE getClientRate([call EXCEPT !.empId = empId], cache)

\* the sell price with a fallback for a rate that is missing or zero
createSellPrice_defaulted(rateInfo) ==
    IF FalsyNum(rateInfo.Rate) THEN Some(150) ELSE rateInfo.Rate

\* const sellPrice = rateInfo.Rate
createSellPrice(rateInfo) == rateInfo.Rate

\* the TimesheetDto of create_timesheet
createPayload(args, empId, rateInfo) ==
    LET hours      == CreateHours(args)
        breakHours == DivBy60(CreateBreak(args))
    IN  [TimeID       |-> None,
         EmpID        |-> empId,
         ClientID     |-> args.client_id,
         ProjectID    |-> args.project_id,
         CategoryID   |-> args.category_id,
         LocationID   |-> args.location_id,
         BillableID   |-> args.billable_id,
         DateCreated  |-> Get(args.date),
         TimeStart    |-> formatDateTime(Get(args.date), Get(args.start_time)),
         TimeEnd      |-> formatDateTime(Get(args.date), Get(args.end_time)),
         TimeLess     |-> breakHours,
         TimeTotal    |-> FracAdd(hours.total, breakHours),
         TimeBillable |-> hours.billable,
         SellPrice    |-> createSellPrice(rateInfo),
         SalesTaxPct  |-> Frac(1, 10),
         Notes        |-> args.note]

createSubmit(call, rateInfo) ==
    Request([call EXCEPT
                !.rateInfo = Some(rateInfo),
                !.payload = Some(createPayload(call.args, call.empId, rateInfo))],
            "SaveTimesheet?isEdit=false", "await_final")

(***************************************************************************)
(* create_timesheet of the dispatcher variant that sends times as HH:MM:SS *)
(* (src/unnamed/part_002, lines 630-1284).                                 *)
(***************************************************************************)
\* formatTime(time): the time gets ":00" unless it has three parts
formatTime(time) == IF Len(time) = 3 THEN time ELSE Append(time, 0)

\* calculateHours of that variant
calculateHoursHMS(startTime, endTime, breakMinutes) ==
    LET brk           == IF breakMinutes = None THEN 0 ELSE Get(breakMinutes)
        startMinutes  == MinutesOfDay(startTime)
        endMinutes    == MinutesOfDay(endTime)
        workedMinutes == endMinutes - startMinutes - brk
        total         == Frac(workedMinutes, 60)
    IN  [total |-> total, billable |-> total]

\* its required-argument test: location_id is not among the operands
CreateMissingHMS(args) ==
    \/ FalsyStr(args.client_id) \/ FalsyStr(args.project_id)
    \/ FalsyStr(args.category_id) \/ FalsyStr(args.date)
    \/ FalsyTime(args.start_time) \/ FalsyTime(args.end_time)

\* const breakMinutes = (args?.break_minutes as number) || 0
CreateBreakHMS(args) == OrNum(args.break_minutes, Some(0))

CreateHoursHMS(args) ==
    calculateHoursHMS(Get(args.start_time), Get(args.end_time),
                      CreateBreakHMS(args))

\* if (billable <= 0) throw new McpError(InvalidParams, "Invalid time range")
CreateRejectsRangeHMS(args) == FracLeqZero(CreateHoursHMS(args).billable)

\* the TimesheetDto of that variant: the break goes out in minutes and
\* TimeTotal is the net total
createPayloadHMS(args, empId, rateInfo) ==
    LET hours == CreateHoursHMS(args)
    IN  [EmpID        |-> empId,
         ClientID     |-> args.client_id,
         ProjectID    |-> args.project_id,
         CategoryID   |-> args.category_id,
         DateCreated  |-> Get(args.date),
         StartTime    |-> formatTime(Get(args.start_time)),
         EndTime      |-> formatTime(Get(args.end_time)),
         TimeLess     |-> CreateBreakHMS(args),
         TimeTotal    |-> hours.total,
         TimeBillable |-> hours.billable,
         LocationID   |-> args.location_id,
         BillableID   |-> args.billable_id,
         SellPrice    |-> rateInfo.Rate,
         Note         |-> args.note]

(***************************************************************************)
(* update_timesheet                                                        *)
(***************************************************************************)
\* the merge of a string override by presence instead of truthiness
mergeString_presence(override, current) == IfDefined(override, current)

\* the merge of the note by truthiness instead of presence
mergeNote_truthy(override, current) == OrStr(override, current)

\* the merge of the break that forgets the existing record's break
mergeBreak_dropsExisting(override, current) ==
    IF override # None THEN override ELSE Some(0)

\* (args?.x as string) || existing.X
mergeString(override, current) == OrStr(override, current)

\* args?.note !== undefined ? args.note : existing.Note
mergeNote(override, current) == IfDefined(override, current)

\* the merge of the break by truthiness: an override of 0 is lost
mergeBreak_truthy(override, current) == OrNum(override, current)

\* args?.break_minutes !== undefined ? args.break_minutes : existing.TimeLess
mergeBreak(override, current) == IfDefined(override, current)

\* the first property read of undefined that the merge runs into, if any
MergeTypeError(args, existing) ==
    IF FalsyStr(args.date) /\ existing.DateCreated = None
    THEN Some("existing.DateCreated.split")
    ELSE IF FalsyTime(args.start_time) /\ existing.StartTime = None
    THEN Some("existing.StartTime.substring")
    ELSE IF FalsyTime(args.end_time) /\ existing.EndTime = None
    THEN Some("existing.EndTime.substring")
    ELSE None

\* the locals of update_timesheet after "Apply updates"
Merged(args, existing) ==
    [clientId     |-> mergeString(args.client_id, existing.ClientID),
     projectId    |-> mergeString(args.project_id, existing.ProjectID),
     categoryId   |-> mergeString(args.category_id, existing.CategoryID),
     date         |-> IF FalsyStr(args.date)
                      THEN SplitT0(Get(existing.DateCreated))
                      ELSE Get(args.date),
     startTime    |-> IF FalsyTime(args.start_time)
                      THEN Substring05(Get(existing.StartTime))
                      ELSE Get(args.start_time),
     endTime      |-> IF FalsyTime(args.end_time)
                      THEN Substring05(Get(existing.EndTime))
                      ELSE Get(args.end_time),
     breakMinutes |-> mergeBreak(args.break_minutes, existing.TimeLess),
     locationId   |-> mergeString(args.location_id, existing.LocationID),
     billableId   |-> mergeString(args.billable_id, existing.BillableID),
     note         |-> mergeNote(args.note, existing.Note)]

\* the sell price taken from the rate the client has today
updateSellPrice_currentRate(existing) == Some(150)

\* SellPrice: existing.SellPrice
updateSellPrice(existing) == existing.SellPrice

\* the employee id of the record that is being replaced
updateEmpID_fromRecord(existing, empId) == existing.EmpID

\* EmpID: empId
updateEmpID(existing, empId) == empId

\* an update payload without a record id
updateTimeID_absent(args) == None

\* TimeID: timesheetId
updateTimeID(args) == args.timesheet_id

\* a conversion that takes the merged break for hours already
updateBreakHours_alreadyHours(breakMinutes) ==
    IF breakMinutes = None THEN NaN ELSE Frac(Get(breakMinutes), 1)

\* const breakHours = breakMinutes / 60 (update_timesheet)
updateBreakHours(breakMinutes) == DivBy60(breakMinutes)

\* the TimesheetDto of update_timesheet
updatePayload(args, existing, empId) ==
    LET m          == Merged(args, existing)
        hours      == calculateHours(m.startTime, m.endTime, m.breakMinutes)
        breakHours == updateBreakHours(m.breakMinutes)
    IN  [TimeID       |-> updateTimeID(args),
         EmpID        |-> updateEmpID(existing, empId),
         ClientID     |-> m.clientId,
         ProjectID    |-> m.projectId,
         CategoryID   |-> m.categoryId,
         LocationID   |-> m.locationId,
         BillableID   |-> m.billableId,
         DateCreated  |-> m.date,
         TimeStart    |-> formatDateTime(m.date, m.startTime),
         TimeEnd      |-> formatDateTime(m.date, m.endTime),
         TimeLess     |-> breakHours,
         TimeTotal    |-> FracAdd(hours.total, breakHours),
         TimeBillable |-> hours.billable,
         SellPrice    |-> updateSellPrice(existing),
         SalesTaxPct  |-> IF existing.SalesTaxPct = None
                             \/ Get(existing.SalesTaxPct).n = 0
                          THEN Frac(1, 10) ELSE Get(existing.SalesTaxPct),
         Notes        |-> m.note]

\* update_timesheet from the resolved employee id to the save request
updateSubmit(call, empId) ==
    Request([call EXCEPT
                !.empId = empId,
                !.payload = Some(updatePayload(call.args, Get(call.existing),
                                               empId))],
            "SaveTimesheet?isEdit=true", "await_final")

(***************************************************************************)
(* TimeProClient.getEmployeeId and what follows it in each caller          *)
(***************************************************************************)
\* the code that runs once getEmployeeId has returned empId to its caller
ResumeAfterIdentity(call, cache, empId) ==
    CASE call.after = "create_timesheet" -> createDerive(call, cache, empId)
      [] call.after = "getClientRate" -> RateRequest(call, empId)
      [] call.after = "getTimesheetDefaults" ->
            Request(call, "GetAddTimesheetsView", "await_final")
      [] call.after = "listTimesheets" ->
            Request(call, "Summary", "await_final")
      [] call.after = "update_timesheet" -> updateSubmit(call, empId)

\* getEmployeeId called by `after`, up to the first await of the call
getEmployeeId(call, cache, after) ==
    IF CacheHit(cache)
    THEN ResumeAfterIdentity([call EXCEPT !.after = after], cache, cache)
    ELSE Request([call EXCEPT !.after = after],
                 "GetEmployeeID", "await_identity")

(***************************************************************************)
(* The handler, one action per tool: the code from the entry of the        *)
(* handler to its first await (or to its return).                          *)
(***************************************************************************)
HostIdle == \A d \in Calls : calls[d].pc = "idle"

\* the connected server can be handed a call for activation c
Deliverable(c) ==
    /\ server = "connected"
    /\ calls[c].pc = "idle"
    /\ delivery \in {"serial", "sampled"} => HostIdle

\* the argument bags the host sends
Offered(name) ==
    IF delivery = "serial" THEN ArgsFor(name) ELSE OverlapArgsFor(name)

Required(message) == Catch(McpError("InvalidParams", message))

\* a list_clients that resolves the employee id before its request
ListClients_resolvesIdentity(c) ==
    /\ Deliverable(c)
    /\ \E args \in Offered("list_clients") :
          calls' = [calls EXCEPT ![c] =
                       getEmployeeId(Started("list_clients", args), employeeId,
                                     "listTimesheets")]
    /\ UNCHANGED <<employeeId, config>>

ListClients(c) ==
    /\ Deliverable(c)
    /\ \E args \in Offered("list_clients") :
          calls' = [calls EXCEPT ![c] =
                       Request(Started("list_clients", args),
                               "GetClientListForAddTimesheet", "await_final")]
    /\ UNCHANGED <<employeeId, config>>

ListProjects(c) ==
    /\ Deliverable(c)
    /\ \E args \in Offered("list_projects") :
          calls' = [calls EXCEPT ![c] =
                       IF FalsyStr(args.client_id)
                       THEN Finish(Started("list_projects", args),
                                   Required("client_id is required"))
                       ELSE Request(Started("list_projects", args),
                                    "Projects/Client", "await_final")]
    /\ UNCHANGED <<employeeId, config>>

ListCategories(c) ==
    /\ Deliverable(c)
    /\ calls' = [calls EXCEPT ![c] =
                    Request(Started("list_categories", NoArgs),
                            "GetTimesheetCategories", "await_final")]
    /\ UNCHANGED <<employeeId, config>>

ListLocations(c) ==
    /\ Deliverable(c)
    /\ calls' = [calls EXCEPT ![c] =
                    Request(Started("list_locations", NoArgs),
                            "GetTimesheetLocation", "await_final")]
    /\ UNCHANGED <<employeeId, config>>

GetTimesheetDefaults(c) ==
    /\ Deliverable(c)
    /\ \E args \in Offered("get_timesheet_defaults") :
          calls' = [calls EXCEPT ![c] =
                       IF FalsyStr(args.date)
                       THEN Finish(Started("get_timesheet_defaults", args),
                                   Required("date is required"))
                       ELSE getEmployeeId(
                                Started("get_timesheet_defaults", args),
                                employeeId, "getTimesheetDefaults")]
    /\ UNCHANGED <<employeeId, config>>

ListTimesheets(c) ==
    /\ Deliverable(c)
    /\ \E args \in Offered("list_timesheets") :
          calls' = [calls EXCEPT ![c] =
                       IF FalsyStr(args.start_date) \/ FalsyStr(args.end_date)
                       THEN Finish(Started("list_timesheets", args),
                                   Required("start_date and end_date are required"))
                       ELSE getEmployeeId(Started("list_timesheets", args),
                                          employeeId, "listTimesheets")]
    /\ UNCHANGED <<employeeId, config>>

GetTimesheet(c) ==
    /\ Deliverable(c)
    /\ \E args \in Offered("get_timesheet") :
          calls' = [calls EXCEPT ![c] =
                       IF FalsyNum(args.timesheet_id)
                       THEN Finish(Started("get_timesheet", args),
                                   Required("timesheet_id is required"))
                       ELSE Request(Started("get_timesheet", args),
                                    "GetEditTimesheetsView", "await_final")]
    /\ UNCHANGED <<employeeId, config>>

CreateTimesheet(c) ==
    /\ Deliverable(c)
    /\ \E args \in Offered("create_timesheet") :
          calls' = [calls EXCEPT ![c] =
                       IF CreateMissing(args)
                       THEN Finish(Started("create_timesheet", args),
                                   Required("client_id, project_id, category_id, date, start_time, end_time, and location_id are all required"))
                       ELSE getEmployeeId(Started("create_timesheet", args),
                                          employeeId, "create_timesheet")]
    /\ UNCHANGED <<employeeId, config>>

UpdateTimesheet(c) ==
    /\ Deliverable(c)
    /\ \E args \in Offered("update_timesheet") :
          calls' = [calls EXCEPT ![c] =
                       IF FalsyNum(args.timesheet_id)
                       THEN Finish(Started("update_timesheet", args),
                                   Required("timesheet_id is required"))
                       ELSE Request(Started("update_timesheet", args),
                                    "GetEditTimesheetsView", "await_existing")]
    /\ UNCHANGED <<employeeId, config>>

DeleteTimesheet(c) ==
    /\ Deliverable(c)
    /\ \E args \in Offered("delete_timesheet") :
          calls' = [calls EXCEPT ![c] =
                       IF FalsyNum(args.timesheet_id)
                       THEN Finish(Started("delete_timesheet", args),
                                   Required("timesheet_id is required"))
                       ELSE Request(Started("delete_timesheet", args),
                                    "DeleteTimesheet", "await_final")]
    /\ UNCHANGED <<employeeId, config>>

\* default: throw new McpError(ErrorCode.MethodNotFound, ...)
UnknownTool(c) ==
    /\ Deliverable(c)
    /\ calls' = [calls EXCEPT ![c] =
                    Finish(Started("unknown_tool", NoArgs),
                           Catch(McpError("MethodNotFound", "Unknown tool")))]
    /\ UNCHANGED <<employeeId, config>>

(***************************************************************************)
(* The remote service answers the request a call is suspended at, and the  *)
(* call runs on to its next await or to its end.                           *)
(***************************************************************************)
\* every answer the remote service can give, as fetch hands it to its caller
Answer(endpoint, Resume(_, _)) ==
    \/ \E body \in OkBodies(endpoint) :
          Resume(OkResponse(body), fetch(endpoint, OkResponse(body)))
    \/ Resume(EmptyResponse, fetch(endpoint, EmptyResponse))
    \/ Resume(GarbageResponse, fetch(endpoint, GarbageResponse))
    \/ \E e \in ErrorReplies :
          Resume(ErrResponse(e), fetch(endpoint, ErrResponse(e)))

\* getEmployeeId after its await: this.employeeId = response.EmpID
EmployeeIdResponse(c) ==
    /\ calls[c].pc = "await_identity"
    /\ LET Resume(response, r) ==
               IF r.threw
               THEN /\ calls' = [calls EXCEPT ![c] =
                                    Finish(Heard(@, response), Catch(r.error))]
                    /\ UNCHANGED employeeId
               ELSE /\ employeeId' = r.value.EmpID
                    /\ calls' = [calls EXCEPT ![c] =
                                    ResumeAfterIdentity(Heard(@, response),
                                                        r.value.EmpID,
                                                        r.value.EmpID)]
       IN  Answer("GetEmployeeID", Resume)
    /\ UNCHANGED config

\* create_timesheet after `await client.getClientRate(clientId)`
ClientRateResponse(c) ==
    /\ calls[c].pc = "await_rate"
    /\ LET Resume(response, r) ==
               calls' = [calls EXCEPT ![c] =
                            IF r.threw
                            THEN Finish(Heard(@, response), Catch(r.error))
                            ELSE createSubmit(Heard(@, response), r.value)]
       IN  Answer("GetClientRate", Resume)
    /\ UNCHANGED <<employeeId, config>>

\* update_timesheet after `await client.getTimesheet(timesheetId)`
ExistingResponse(c) ==
    /\ calls[c].pc = "await_existing"
    /\ LET Resume(response, r) ==
               calls' = [calls EXCEPT ![c] =
                   IF r.threw THEN Finish(Heard(@, response), Catch(r.error))
                   ELSE IF MergeTypeError(@.args, r.value) # None
                   THEN Finish([Heard(@, response) EXCEPT
                                   !.existing = Some(r.value)],
                               Catch(TypeError(Get(MergeTypeError(@.args,
                                                                  r.value)))))
                   ELSE getEmployeeId([Heard(@, response) EXCEPT
                                          !.existing = Some(r.value)],
                                      employeeId, "update_timesheet")]
       IN  Answer("GetEditTimesheetsView", Resume)
    /\ UNCHANGED <<employeeId, config>>

\* the last request of a call is answered: the handler returns its result
FinalResponse(c) ==
    /\ calls[c].pc = "await_final"
    /\ LET Resume(response, r) ==
               calls' = [calls EXCEPT ![c] =
                            IF r.threw
                            THEN Finish(Heard(@, response), Catch(r.error))
                            ELSE Finish(Heard(@, response), Success)]
       IN  Answer(Pending(calls[c]), Resume)
    /\ UNCHANGED <<employeeId, config>>

\* the host receives the outcome; the activation is gone
Return(c) ==
    /\ calls[c].pc = "done"
    /\ calls' = [calls EXCEPT ![c] = IdleCall]
    /\ UNCHANGED <<employeeId, config>>

(***************************************************************************)
(* Start-up: the body of the module and main().                            *)
(***************************************************************************)
\* what process.env can hold for a setting: nothing, "", a value
Setting == {None, Some(""), Some("set")}

Environments ==
    [TIMEPRO_API_URL : Setting, TIMEPRO_API_KEY : Setting,
     TIMEPRO_TENANT_ID : Setting]

\* a check that forgets the tenant id
SettingsMissing_ignoresTenant(e) ==
    \/ FalsyStr(e.TIMEPRO_API_URL)
    \/ FalsyStr(e.TIMEPRO_API_KEY)

\* !TIMEPRO_API_URL || !TIMEPRO_API_KEY || !TIMEPRO_TENANT_ID
SettingsMissing(e) ==
    \/ FalsyStr(e.TIMEPRO_API_URL)
    \/ FalsyStr(e.TIMEPRO_API_KEY)
    \/ FalsyStr(e.TIMEPRO_TENANT_ID)

\* the environment check, new TimeProClient(...), main(): server.connect
Startup ==
    /\ server = "loading"
    /\ server' = IF SettingsMissing(env) THEN "exited" ELSE "connected"
    /\ UNCHANGED <<employeeId, calls, env, delivery>>

Init ==
    /\ employeeId = Null
    /\ calls = [c \in Calls |-> IdleCall]
    /\ env \in Environments
    /\ server = "loading"
    /\ delivery = "serial"

\* the serial host sending one complete argument bag per tool
InitSampled ==
    /\ employeeId = Null
    /\ calls = [c \in Calls |-> IdleCall]
    /\ env \in Environments
    /\ server = "loading"
    /\ delivery = "sampled"

\* the same process under a host that does not wait for a call to return
InitOverlap ==
    /\ employeeId = Null
    /\ calls = [c \in Calls |-> IdleCall]
    /\ env \in Environments
    /\ server = "loading"
    /\ delivery = "overlapping"

Next ==
    \/ Startup
    \/ \E c \in Calls :
        \/ ListClients(c)
        \/ ListProjects(c)
        \/ ListCategories(c)
        \/ ListLocations(c)
        \/ GetTimesheetDefaults(c)
        \/ ListTimesheets(c)
        \/ GetTimesheet(c)
        \/ CreateTimesheet(c)
        \/ UpdateTimesheet(c)
        \/ DeleteTimesheet(c)
        \/ UnknownTool(c)
        \/ EmployeeIdResponse(c)
        \/ ClientRateResponse(c)
        \/ ExistingResponse(c)
        \/ FinalResponse(c)
        \/ Return(c)

Spec == Init /\ [][Next]_vars

SpecOverlap == InitOverlap /\ [][Next]_vars

\* the remote service answers the request of call c
Responds(c) ==
    \/ EmployeeIdResponse(c)
    \/ ClientRateResponse(c)
    \/ ExistingResponse(c)
    \/ FinalResponse(c)

\* the serial process with a remote service that answers every request
SpecLive ==
    InitSampled /\ [][Next]_vars /\ \A c \in Calls : WF_vars(Responds(c))

TypeOK ==
    /\ employeeId \in {Null, None, Some(RemoteEmpID)}
    /\ env \in Environments
    /\ server \in {"loading", "connected", "exited"}
    /\ delivery \in {"serial", "overlapping", "sampled"}
    /\ \A c \in Calls :
          calls[c].pc \in {"idle", "await_identity", "await_rate",
                           "await_existing", "await_final", "done"}

(***************************************************************************)
(* Properties.                                                             *)
(***************************************************************************)
\* minutes of the day of a submitted date-time
WireMinutes(dateTime) == MinutesOfDay(dateTime[2])

\* the break of the merged time range of a call, in minutes
BreakOf(call) ==
    IF call.args.break_minutes # None THEN call.args.break_minutes
    ELSE IF call.name = "create_timesheet" THEN Some(0)
    ELSE Get(call.existing).TimeLess

Submitted(call, endpoint) ==
    \E i \in 1 .. Len(call.reqs) : call.reqs[i] = endpoint

InvalidTimeRange(outcome) ==
    /\ outcome.kind = "thrown"
    /\ outcome.error.code = "InvalidParams"
    /\ outcome.error.text = "Invalid time range"

\* C1: every payload create_timesheet or update_timesheet submits for a time
\* range with end > start and 0 <= break < end - start has
\* 60 * TimeBillable = end - start - break, 60 * TimeTotal = end - start and
\* TimeTotal - TimeBillable = break / 60.
C1_DurationsDerived ==
    \A c \in Calls :
        calls[c].payload # None =>
            LET p == Get(calls[c].payload)
                s == WireMinutes(p.TimeStart)
                e == WireMinutes(p.TimeEnd)
                b == BreakOf(calls[c])
                B == p.TimeBillable
                T == p.TimeTotal
            IN  (b # None /\ e > s /\ 0 <= Get(b) /\ Get(b) < e - s) =>
                    /\ ~IsNaN(B) /\ ~IsNaN(T)
                    /\ 60 * B.n = (e - s - Get(b)) * B.d
                    /\ 60 * T.n = (e - s) * T.d
                    /\ 60 * (T.n * B.d - B.n * T.d) = Get(b) * T.d * B.d

C1_Witness ==
    \E c \in Calls :
        /\ calls[c].name = "create_timesheet"
        /\ calls[c].args.start_time = Some(<<9, 0>>)
        /\ calls[c].args.end_time = Some(<<18, 0, 0>>)
        /\ calls[c].args.break_minutes = Some(60)
        /\ calls[c].payload # None
        /\ Get(calls[c].payload).TimeBillable = Frac(8, 1)
        /\ Get(calls[c].payload).TimeTotal = Frac(9, 1)

\* worked minutes of a create_timesheet argument bag with its times present
CreateWorked(args) ==
    MinutesOfDay(Get(args.end_time)) - MinutesOfDay(Get(args.start_time))
        - (IF args.break_minutes = None THEN 0 ELSE Get(args.break_minutes))

\* C2: a create_timesheet call with worked minutes <= 0 ends in the
\* invalid-time-range validation error and submits no create-record request.
C2_CreateRejectsInvalidRange ==
    \A c \in Calls :
        (/\ calls[c].name = "create_timesheet"
         /\ ~CreateMissing(calls[c].args)
         /\ CreateWorked(calls[c].args) <= 0) =>
            /\ ~Submitted(calls[c], "SaveTimesheet?isEdit=false")
            /\ calls[c].pc = "done" => InvalidTimeRange(calls[c].outcome)

\* worked minutes of the merged time range of an update_timesheet call
UpdateWorked(call) ==
    LET m == Merged(call.args, Get(call.existing))
    IN  MinutesOfDay(m.endTime) - MinutesOfDay(m.startTime)
            - (IF m.breakMinutes = None THEN 0 ELSE Get(m.breakMinutes))

\* an update_timesheet call that has fetched and merged the existing record
UpdateMerged(call) ==
    /\ call.name = "update_timesheet"
    /\ call.existing # None
    /\ MergeTypeError(call.args, Get(call.existing)) = None

\* C3: an update_timesheet call whose merged time range has worked minutes
\* <= 0 ends in the invalid-time-range validation error and submits no
\* replace-record request.
C3_UpdateRejectsInvalidRange ==
    \A c \in Calls :
        (UpdateMerged(calls[c]) /\ UpdateWorked(calls[c]) <= 0) =>
            /\ ~Submitted(calls[c], "SaveTimesheet?isEdit=true")
            /\ calls[c].pc = "done" => InvalidTimeRange(calls[c].outcome)

\* C4: a create_timesheet call rejected for its time range has issued no
\* remote request at all.
C4_NoRequestBeforeRangeRejection ==
    \A c \in Calls :
        (/\ calls[c].name = "create_timesheet"
         /\ InvalidTimeRange(calls[c].outcome)) => calls[c].reqs = <<>>

\* a required argument of the tool is undefined or the empty string
MissingRequired(call) ==
    \E key \in RequiredOf(call.name) :
        \/ call.args[key] = None
        \/ key # "timesheet_id" /\ call.args[key] = Some(EmptyOf(key))

C6_NoteByPresence ==
    \A c \in Calls :
        (calls[c].name = "update_timesheet" /\ calls[c].payload # None) =>
            /\ calls[c].args.note = Some("") =>
                  Get(calls[c].payload).Notes = Some("")
            /\ calls[c].args.note = None =>
                  Get(calls[c].payload).Notes = Get(calls[c].existing).Note

C6_Witness ==
    \E c \in Calls :
        /\ calls[c].name = "update_timesheet"
        /\ calls[c].args.note = Some("")
        /\ calls[c].existing # None
        /\ Get(calls[c].existing).Note = Some("old")
        /\ calls[c].payload # None
        /\ Get(calls[c].payload).Notes = Some("")

\* the clock time a submitted date-time carries, as the given "HH:MM[:SS]"
CarriesTime(dateTime, time) ==
    /\ SubSeq(dateTime[2], 1, 2) = SubSeq(time, 1, 2)
    /\ Len(time) = 3 => dateTime[2] = time

\* C7 (as stated): in update_timesheet every string override other than note
\* that is present in the arguments is the value submitted, the empty string
\* included.
C7_StringsByPresence ==
    \A c \in Calls :
        (calls[c].name = "update_timesheet" /\ calls[c].payload # None) =>
            LET a == calls[c].args
                p == Get(calls[c].payload)
            IN  /\ a.client_id # None => p.ClientID = a.client_id
                /\ a.project_id # None => p.ProjectID = a.project_id
                /\ a.category_id # None => p.CategoryID = a.category_id
                /\ a.location_id # None => p.LocationID = a.location_id
                /\ a.billable_id # None => p.BillableID = a.billable_id
                /\ a.date # None => p.DateCreated = Get(a.date)
                /\ a.start_time # None =>
                      p.TimeStart[2] = formatDateTime("", Get(a.start_time))[2]
                /\ a.end_time # None =>
                      p.TimeEnd[2] = formatDateTime("", Get(a.end_time))[2]

\* C7 (amended): in update_timesheet a string override other than note that
\* is present and not empty is the value submitted; an override that is
\* absent or the empty string keeps the existing record's value (for date the
\* part of DateCreated before "T", for the times the first five characters).
C7_StringsByTruthiness ==
    \A c \in Calls :
        (calls[c].name = "update_timesheet" /\ calls[c].payload # None) =>
            LET a == calls[c].args
                x == Get(calls[c].existing)
                p == Get(calls[c].payload)
                Str(o, cur, sub) ==
                    /\ (o # None /\ o # Some("")) => sub = o
                    /\ (o = None \/ o = Some("")) => sub = cur
                Time(o, cur, sub) ==
                    /\ (o # None /\ o # Some(<<>>)) => CarriesTime(sub, Get(o))
                    /\ (o = None \/ o = Some(<<>>)) =>
                          sub[2] = <<Get(cur)[1], Get(cur)[2], 0>>
            IN  /\ Str(a.client_id, x.ClientID, p.ClientID)
                /\ Str(a.project_id, x.ProjectID, p.ProjectID)
                /\ Str(a.category_id, x.CategoryID, p.CategoryID)
                /\ Str(a.location_id, x.LocationID, p.LocationID)
                /\ Str(a.billable_id, x.BillableID, p.BillableID)
                /\ (a.date # None /\ a.date # Some("")) =>
                      p.DateCreated = Get(a.date)
                /\ (a.date = None \/ a.date = Some("")) =>
                      p.DateCreated = Get(x.DateCreated)[1]
                /\ Time(a.start_time, x.StartTime, p.TimeStart)
                /\ Time(a.end_time, x.EndTime, p.TimeEnd)

C7_Witness ==
    \E c \in Calls :
        /\ calls[c].name = "update_timesheet"
        /\ calls[c].args.client_id = Some("")
        /\ calls[c].payload # None
        /\ Get(calls[c].payload).ClientID = Some("A")

\* the argument bag overrides nothing
NoOverride(args) ==
    \A key \in DOMAIN args : key # "timesheet_id" => args[key] = None

\* TimeTotal and TimeBillable of a fetched record agree with its StartTime,
\* EndTime (hours and minutes) and TimeLess (minutes)
Consistent(x) ==
    /\ x.StartTime # None /\ x.EndTime # None /\ x.TimeLess # None
    /\ x.TimeTotal # None /\ x.TimeBillable # None
    /\ LET span == MinutesOfDay(Get(x.EndTime)) - MinutesOfDay(Get(x.StartTime))
       IN  /\ 60 * Get(x.TimeTotal).n = span * Get(x.TimeTotal).d
           /\ 60 * Get(x.TimeBillable).n
                 = (span - Get(x.TimeLess)) * Get(x.TimeBillable).d

\* C8: update_timesheet with no override, on an existing record whose
\* TimeTotal and TimeBillable are consistent with its times and break,
\* submits the existing record's TimeTotal and TimeBillable.
C8_EmptyUpdateKeepsDurations ==
    \A c \in Calls :
        (/\ calls[c].name = "update_timesheet"
         /\ calls[c].payload # None
         /\ NoOverride(calls[c].args)
         /\ Consistent(Get(calls[c].existing))) =>
            /\ Some(Get(calls[c].payload).TimeTotal)
                  = Get(calls[c].existing).TimeTotal
            /\ Some(Get(calls[c].payload).TimeBillable)
                  = Get(calls[c].existing).TimeBillable

C8_Witness ==
    \E c \in Calls :
        /\ calls[c].name = "update_timesheet"
        /\ NoOverride(calls[c].args)
        /\ calls[c].payload # None
        /\ Consistent(Get(calls[c].existing))
        /\ Get(calls[c].existing).TimeLess = Some(60)
        /\ Get(calls[c].payload).TimeTotal = Frac(9, 1)
        /\ Get(calls[c].payload).TimeBillable = Frac(8, 1)

\* C9: every payload create_timesheet or update_timesheet submits has its end
\* time later than its start time and (end - start) - break > 0.
C9_SubmittedRangeValid ==
    \A c \in Calls :
        calls[c].payload # None =>
            LET p == Get(calls[c].payload)
                s == WireMinutes(p.TimeStart)
                e == WireMinutes(p.TimeEnd)
            IN  /\ e > s
                /\ ~IsNaN(p.TimeLess)
                /\ (e - s) * p.TimeLess.d - 60 * p.TimeLess.n > 0

\* a step in which some call sends an identity-resolution request
IssuesIdentityRequest ==
    \E c \in Calls :
        /\ calls'[c].pc = "await_identity"
        /\ calls'[c].reqs # calls[c].reqs

\* C10: once getEmployeeId has completed successfully (employeeId is no longer
\* null) no step issues an identity-resolution request or changes employeeId,
\* and every payload built carries the cached value as its employee id.
C10_IdentityResolvedOnce ==
    /\ [][employeeId # Null =>
             (employeeId' = employeeId /\ ~IssuesIdentityRequest)]_vars
    /\ [](\A c \in Calls :
             calls[c].payload # None =>
                 employeeId # Null /\ Get(calls[c].payload).EmpID = employeeId)

C10_Witness ==
    \E c \in Calls :
        /\ employeeId = Some(RemoteEmpID)
        /\ calls[c].name = "create_timesheet"
        /\ calls[c].reqs = <<"GetClientRate", "SaveTimesheet?isEdit=false">>
        /\ Get(calls[c].payload).EmpID = Some(RemoteEmpID)

(***************************************************************************)
(* C11: when calls that need the employee identity overlap while the cache *)
(* is still empty, at most one GetEmployeeID request is in flight at any   *)
(* time (no duplicate identity-resolution request is issued).              *)
(***************************************************************************)
IdentityInFlight == {c \in Calls : calls[c].pc = "await_identity"}

C11_SingleIdentityRequestInFlight ==
    delivery = "overlapping" => Cardinality(IdentityInFlight) <= 1

(***************************************************************************)
(* C12: update_timesheet never issues a rate lookup, whatever client_id it *)
(* is given, and submits the SellPrice of the record it fetched; only      *)
(* create_timesheet issues a rate lookup.                                  *)
(***************************************************************************)
C12_UpdateKeepsSellPrice ==
    \A c \in Calls :
        /\ calls[c].name = "update_timesheet" =>
              /\ ~Submitted(calls[c], "GetClientRate")
              /\ calls[c].rateQuery = None
              /\ calls[c].payload # None =>
                    Get(calls[c].payload).SellPrice
                        = Get(calls[c].existing).SellPrice
        /\ Submitted(calls[c], "GetClientRate") =>
              calls[c].name = "create_timesheet"

\* an update that moves the record to another client has been saved with the
\* price of the fetched record, which is not the client's rate of today
C12_Witness ==
    \E c \in Calls :
        /\ calls[c].name = "update_timesheet"
        /\ calls[c].args.client_id = Some("B")
        /\ calls[c].pc = "done"
        /\ calls[c].outcome = Success
        /\ Get(calls[c].existing).ClientID = Some("A")
        /\ Get(calls[c].existing).SellPrice = Some(0)
        /\ Get(calls[c].payload).ClientID = Some("B")
        /\ Get(calls[c].payload).SellPrice = Some(0)
        /\ Submitted(calls[c], "SaveTimesheet?isEdit=true")

(***************************************************************************)
(* C13: the payload create_timesheet builds carries as SellPrice the Rate  *)
(* of the answer to its rate lookup, whatever that value is (a number, 0,  *)
(* or no Rate at all), and the lookup was made for the client_id of the    *)
(* call and the employee id resolved for it.                               *)
(***************************************************************************)
C13_CreateSubmitsReturnedRate ==
    \A c \in Calls :
        (calls[c].name = "create_timesheet" /\ calls[c].payload # None) =>
            /\ calls[c].rateInfo # None
            /\ Get(calls[c].payload).SellPrice = Get(calls[c].rateInfo).Rate
            /\ calls[c].reqs[Len(calls[c].reqs) - 1] = "GetClientRate"
            /\ calls[c].rateQuery =
                  Some([empID    |-> Get(calls[c].payload).EmpID,
                        clientID |-> calls[c].args.client_id])
            /\ Get(calls[c].payload).ClientID = calls[c].args.client_id

\* a rate of 0 came back and has been submitted as it is
C13_Witness ==
    \E c \in Calls :
        /\ calls[c].name = "create_timesheet"
        /\ calls[c].pc = "done"
        /\ calls[c].outcome = Success
        /\ Get(calls[c].rateInfo).Rate = Some(0)
        /\ Get(calls[c].payload).SellPrice = Some(0)
        /\ calls[c].rateQuery =
              Some([empID |-> Some(RemoteEmpID), clientID |-> Some("A")])

(***************************************************************************)
(* C14: a non-2xx response to any request of create_timesheet (identity,   *)
(* rate lookup, create) ends the call with a failed tool result (isError,  *)
(* success = false) whose message carries the status code and the body     *)
(* text of the response; the server stays connected and, once the result   *)
(* has been returned, is ready for the next call with its cache untouched. *)
(***************************************************************************)
RemoteFailure(call) == call.last.status # 0 /\ ~call.last.ok

FailedResult(outcome) ==
    outcome.kind = "result" /\ outcome.isError /\ ~outcome.success

C14_CreateRemoteFailureReported ==
    /\ [](\A c \in Calls :
            (calls[c].name = "create_timesheet" /\ RemoteFailure(calls[c])) =>
                /\ calls[c].pc = "done"
                /\ FailedResult(calls[c].outcome)
                /\ calls[c].outcome.error.status = calls[c].last.status
                /\ calls[c].last.kind = "raw" =>
                      calls[c].outcome.error.text = calls[c].last.raw
                /\ server = "connected")
    /\ [][\A c \in Calls :
            (/\ calls[c].name = "create_timesheet"
             /\ RemoteFailure(calls[c])
             /\ calls'[c] # calls[c]) =>
                /\ calls'[c] = IdleCall
                /\ server' = "connected"
                /\ employeeId' = employeeId]_vars

\* the create-record request itself was refused with 401 and the body "denied"
C14_Witness ==
    \E c \in Calls :
        /\ calls[c].name = "create_timesheet"
        /\ calls[c].reqs = <<"GetEmployeeID", "GetClientRate",
                             "SaveTimesheet?isEdit=false">>
        /\ calls[c].last.status = 401
        /\ calls[c].outcome.isError
        /\ calls[c].outcome.error.status = 401
        /\ calls[c].outcome.error.text = "denied"

(***************************************************************************)
(* C15: the kind of failure fixes the kind of outcome.  A call that fails  *)
(* validation (a required argument missing, or an invalid time range) ends *)
(* in a protocol-level error and never in a failed-result payload; a call  *)
(* whose remote request is answered non-2xx ends in a failed-result        *)
(* payload and never in a protocol-level error.                            *)
(***************************************************************************)
ProtocolError(outcome) == outcome.kind = "thrown"

\* the time range the call asks for has no positive net duration
RangeInvalid(call) ==
    \/ /\ call.name = "create_timesheet"
       /\ ~CreateMissing(call.args)
       /\ CreateWorked(call.args) <= 0
    \/ UpdateMerged(call) /\ UpdateWorked(call) <= 0

C15_OutcomeKindByFailureKind ==
    \A c \in Calls :
        calls[c].pc = "done" =>
            /\ (MissingRequired(calls[c]) \/ RangeInvalid(calls[c]))
                   /\ ~RemoteFailure(calls[c]) =>
                  /\ ProtocolError(calls[c].outcome)
                  /\ ~FailedResult(calls[c].outcome)
            /\ RemoteFailure(calls[c]) =>
                  /\ FailedResult(calls[c].outcome)
                  /\ ~ProtocolError(calls[c].outcome)

(***************************************************************************)
(* C16: within one tool call every remote request is attempted exactly     *)
(* once: no endpoint appears twice among the requests of a call, a step    *)
(* issues at most one new request, and after a request has failed the call *)
(* issues no further request.                                              *)
(***************************************************************************)
NoRepeat(reqs) ==
    \A i, j \in 1 .. Len(reqs) : reqs[i] = reqs[j] => i = j

C16_EachRequestOnce ==
    /\ [](\A c \in Calls :
            /\ NoRepeat(calls[c].reqs)
            /\ RemoteFailure(calls[c]) => calls[c].pc = "done")
    /\ [][\A c \in Calls :
            calls'[c].reqs # calls[c].reqs =>
                \/ calls'[c] = IdleCall
                \/ /\ ~RemoteFailure(calls[c])
                   /\ Len(calls'[c].reqs) = Len(calls[c].reqs) + 1
                   /\ SubSeq(calls'[c].reqs, 1, Len(calls[c].reqs))
                         = calls[c].reqs]_vars

\* the rate lookup of a create was answered 500 and the call ended there
C16_Witness ==
    \E c \in Calls :
        /\ calls[c].name = "create_timesheet"
        /\ calls[c].reqs = <<"GetEmployeeID", "GetClientRate">>
        /\ calls[c].last.status = 500
        /\ calls[c].pc = "done"
        /\ employeeId = Some(RemoteEmpID)

(***************************************************************************)
(* C17 as stated: the requests of a call are identity resolution, then the *)
(* rate lookup if any, then the primary request; no request of a call is   *)
(* issued before the identity resolution of that call.                     *)
(***************************************************************************)
C17_IdentityResolutionFirst ==
    \A c \in Calls :
        \A i \in 1 .. Len(calls[c].reqs) :
            calls[c].reqs[i] = "GetEmployeeID" => i = 1

(***************************************************************************)
(* C17 as the handler has it: the requests of a call are issued one after  *)
(* another, each in the step in which the previous one was answered 2xx,   *)
(* in the order fixed for the tool: create resolves the identity, looks    *)
(* the rate up and saves; update fetches the existing record, then         *)
(* resolves the identity, then saves; get_timesheet_defaults and           *)
(* list_timesheets resolve the identity and make their request; the other  *)
(* tools make their one request.  The identity request is there exactly    *)
(* when the cache is empty at that point of the call.                      *)
(***************************************************************************)
RequestPlan(name) ==
    CASE name = "list_clients" -> <<"GetClientListForAddTimesheet">>
      [] name = "list_projects" -> <<"Projects/Client">>
      [] name = "list_categories" -> <<"GetTimesheetCategories">>
      [] name = "list_locations" -> <<"GetTimesheetLocation">>
      [] name = "get_timesheet_defaults" ->
            <<"GetEmployeeID", "GetAddTimesheetsView">>
      [] name = "list_timesheets" -> <<"GetEmployeeID", "Summary">>
      [] name = "get_timesheet" -> <<"GetEditTimesheetsView">>
      [] name = "create_timesheet" ->
            <<"GetEmployeeID", "GetClientRate", "SaveTimesheet?isEdit=false">>
      [] name = "update_timesheet" ->
            <<"GetEditTimesheetsView", "GetEmployeeID",
              "SaveTimesheet?isEdit=true">>
      [] name = "delete_timesheet" -> <<"DeleteTimesheet">>
      [] OTHER -> <<>>

WithoutIdentity(plan) == SelectSeq(plan, LAMBDA e : e # "GetEmployeeID")

IsPrefix(s, t) == Len(s) <= Len(t) /\ SubSeq(t, 1, Len(s)) = s

Awaiting(call) ==
    call.pc \in {"await_identity", "await_rate", "await_existing",
                 "await_final"}

C17_RequestsInToolOrder ==
    /\ [](\A c \in Calls :
            \/ IsPrefix(calls[c].reqs, RequestPlan(calls[c].name))
            \/ IsPrefix(calls[c].reqs,
                        WithoutIdentity(RequestPlan(calls[c].name))))
    /\ [][\A c \in Calls :
            (calls'[c].reqs # calls[c].reqs /\ calls'[c] # IdleCall) =>
                /\ Len(calls'[c].reqs) = Len(calls[c].reqs) + 1
                /\ Awaiting(calls'[c])
                /\ \/ calls[c].pc = "idle"
                   \/ /\ Awaiting(calls[c])
                      /\ calls'[c].last.ok
                      /\ calls'[c].last.status = 200
                /\ Pending(calls'[c]) = "GetEmployeeID" <=> 
                      /\ employeeId = Null
                      /\ ~Submitted(calls[c], "GetEmployeeID")
                      /\ RequestPlan(calls'[c].name)[Len(calls'[c].reqs)]
                            = "GetEmployeeID"]_vars

\* an update on an empty cache: the existing record was fetched before the
\* identity was resolved
C17_Witness ==
    \E c \in Calls :
        /\ calls[c].name = "update_timesheet"
        /\ calls[c].reqs = <<"GetEditTimesheetsView", "GetEmployeeID",
                             "SaveTimesheet?isEdit=true">>
        /\ calls[c].pc = "done"
        /\ calls[c].outcome = Success

(***************************************************************************)
(* C18: update_timesheet submits every assignment and monetary field that  *)
(* has no override (client, project, category, location, billable id,      *)
(* note, sell price, sales-tax fraction) with exactly the value of the     *)
(* fetched record, whatever that value is, the empty string and a          *)
(* sales-tax fraction of 0 included.                                       *)
(***************************************************************************)
C18_UnoverriddenFieldsVerbatim ==
    \A c \in Calls :
        (calls[c].name = "update_timesheet" /\ calls[c].payload # None) =>
            LET args     == calls[c].args
                existing == Get(calls[c].existing)
                sent     == Get(calls[c].payload)
            IN  /\ args.client_id = None => sent.ClientID = existing.ClientID
                /\ args.project_id = None =>
                      sent.ProjectID = existing.ProjectID
                /\ args.category_id = None =>
                      sent.CategoryID = existing.CategoryID
                /\ args.location_id = None =>
                      sent.LocationID = existing.LocationID
                /\ args.billable_id = None =>
                      sent.BillableID = existing.BillableID
                /\ args.note = None => sent.Notes = existing.Note
                /\ sent.SellPrice = existing.SellPrice
                /\ existing.SalesTaxPct # None =>
                      sent.SalesTaxPct = Get(existing.SalesTaxPct)

(***************************************************************************)
(* C19: when one of the three settings (base URL, API key, tenant id) is   *)
(* absent or empty at start-up, the server is never connected: no tool     *)
(* call is handled, no remote request is issued and the identity cache     *)
(* stays empty; once the check has run the process has exited.             *)
(***************************************************************************)
SettingNames == {"TIMEPRO_API_URL", "TIMEPRO_API_KEY", "TIMEPRO_TENANT_ID"}

AbsentOrEmpty(setting) == setting = None \/ setting = Some("")

C19_NoServiceWithoutSettings ==
    (\E k \in SettingNames : AbsentOrEmpty(env[k])) =>
        /\ server \in {"loading", "exited"}
        /\ \A c \in Calls : calls[c] = IdleCall
        /\ employeeId = Null

\* the process has exited over an empty tenant id, the other two being set
C19_Witness ==
    /\ env.TIMEPRO_API_URL = Some("set")
    /\ env.TIMEPRO_API_KEY = Some("set")
    /\ env.TIMEPRO_TENANT_ID = Some("")
    /\ server = "exited"

(***************************************************************************)
(* C20: for the same start time, end time and break minutes the variant    *)
(* that sends HH:MM:SS times and the variant that sends date+time strings  *)
(* accept or reject the time range alike, and what they submit has the     *)
(* same TimeBillable and the same TimeTotal.                               *)
(***************************************************************************)
C20_VariantsAgreeOnDurations ==
    \A c \in Calls :
        (calls[c].name = "create_timesheet" /\ ~CreateMissing(calls[c].args))
        =>  /\ ~CreateMissingHMS(calls[c].args)
            /\ CreateRejectsRangeHMS(calls[c].args)
                  <=> FracLeqZero(CreateHours(calls[c].args).billable)
            /\ calls[c].payload # None =>
                  LET sent == Get(calls[c].payload)
                      hms  == createPayloadHMS(calls[c].args, calls[c].empId,
                                               Get(calls[c].rateInfo))
                  IN  /\ hms.TimeBillable = sent.TimeBillable
                      /\ hms.TimeTotal = sent.TimeTotal

(***************************************************************************)
(* C21: the break does not drift between create and update.  When the      *)
(* fetched record is the read-back of a create (same start and end time,   *)
(* TimeLess = the break of the create in minutes), an update without an    *)
(* override of the break or the times submits the TimeLess, TimeBillable   *)
(* and TimeTotal that the create submitted.                                *)
(***************************************************************************)
\* the record the service holds after an accepted create with arguments a
ReadBackOf(existing, a) ==
    /\ existing.StartTime = Some(formatDateTime(Get(a.date),
                                                Get(a.start_time))[2])
    /\ existing.EndTime = Some(formatDateTime(Get(a.date),
                                              Get(a.end_time))[2])
    /\ existing.TimeLess = CreateBreak(a)

CreateAccepted(a) ==
    ~CreateMissing(a) /\ ~FracLeqZero(CreateHours(a).billable)

\* the time ranges a create is given, the other arguments being complete
CreatedRanges ==
    {CreateBase(s, e, b, None, None) :
        s \in ArgTimes, e \in ArgTimes, b \in ArgBreaks}

KeepsTimeRange(args) ==
    /\ args.break_minutes = None
    /\ FalsyTime(args.start_time)
    /\ FalsyTime(args.end_time)

C21_BreakDoesNotDrift ==
    \A c \in Calls :
        (/\ UpdateMerged(calls[c])
         /\ calls[c].payload # None
         /\ KeepsTimeRange(calls[c].args)) =>
            \A a \in CreatedRanges :
                (ReadBackOf(Get(calls[c].existing), a) /\ CreateAccepted(a))
                => LET created == createPayload(a, calls[c].empId,
                                                [Rate |-> None])
                       sent    == Get(calls[c].payload)
                   IN  /\ sent.TimeLess = created.TimeLess
                       /\ sent.TimeBillable = created.TimeBillable
                       /\ sent.TimeTotal = created.TimeTotal

\* 09:00-18:00 with a break of 60 minutes, created and then updated: one hour
\* of break, eight billable hours, nine hours in total on the wire
C21_Witness ==
    \E c \in Calls :
        /\ UpdateMerged(calls[c])
        /\ KeepsTimeRange(calls[c].args)
        /\ calls[c].pc = "done"
        /\ calls[c].outcome = Success
        /\ ReadBackOf(Get(calls[c].existing),
                      CreateBase(<<9, 0>>, <<18, 0, 0>>, Some(60), None, None))
        /\ Get(calls[c].payload).TimeLess = Frac(1, 1)
        /\ Get(calls[c].payload).TimeBillable = Frac(8, 1)
        /\ Get(calls[c].payload).TimeTotal = Frac(9, 1)

(***************************************************************************)
(* C22: the payload of create_timesheet carries no record id; the payload  *)
(* of update_timesheet carries the timesheet_id argument of the call, the  *)
(* id under which the existing record was fetched.                         *)
(***************************************************************************)
C22_RecordIdOnlyOnUpdate ==
    \A c \in Calls :
        /\ (calls[c].name = "create_timesheet" /\ calls[c].payload # None) =>
              Get(calls[c].payload).TimeID = None
        /\ (calls[c].name = "update_timesheet" /\ calls[c].payload # None) =>
              /\ Get(calls[c].payload).TimeID # None
              /\ Get(calls[c].payload).TimeID = calls[c].args.timesheet_id
              /\ calls[c].reqs[1] = "GetEditTimesheetsView"

\* the update of record 7 is on its way with TimeID 7
C22_Witness ==
    \E c \in Calls :
        /\ calls[c].name = "update_timesheet"
        /\ calls[c].pc = "await_final"
        /\ Pending(calls[c]) = "SaveTimesheet?isEdit=true"
        /\ calls[c].args.timesheet_id = Some(7)
        /\ Get(calls[c].payload).TimeID = Some(7)

(***************************************************************************)
(* C23: provided every remote request is eventually answered, every tool   *)
(* call eventually completes, and it completes with exactly one outcome:   *)
(* a success payload, a failed-result payload or a protocol-level error.   *)
(* A call that has not completed has no outcome, and the outcome of a      *)
(* completed call is never replaced.                                       *)
(***************************************************************************)
OutcomeKinds(outcome) ==
    {k \in {"success", "failed", "protocol"} :
        \/ k = "success" /\ outcome = Success
        \/ k = "failed" /\ FailedResult(outcome)
        \/ k = "protocol" /\ ProtocolError(outcome)}

C23_EveryCallCompletesOnce ==
    /\ \A c \in Calls : Awaiting(calls[c]) ~> calls[c].pc = "done"
    /\ [](\A c \in Calls :
            /\ calls[c].pc \in {"idle", "done"} \/ Awaiting(calls[c])
            /\ calls[c].pc = "done" =>
                  Cardinality(OutcomeKinds(calls[c].outcome)) = 1
            /\ calls[c].pc # "done" => calls[c].outcome = NoOutcome)
    /\ [][\A c \in Calls :
            (calls[c].pc = "done" /\ calls'[c] # calls[c]) =>
                calls'[c] = IdleCall]_vars

\* a list_timesheets call has gone through both of its requests and completed
C23_Witness ==
    \E c \in Calls :
        /\ calls[c].name = "list_timesheets"
        /\ calls[c].reqs = <<"GetEmployeeID", "Summary">>
        /\ calls[c].pc = "done"
        /\ OutcomeKinds(calls[c].outcome) = {"success"}

(***************************************************************************)
(* C24: a failure that is neither a validation error nor a non-2xx answer  *)
(* (a 2xx body that JSON.parse rejects, a fetched record without the field *)
(* the merge reads) ends the call with a failed-result payload with        *)
(* success = false; the server stays connected and takes the next call     *)
(* once the result has been returned.                                      *)
(***************************************************************************)
\* the last answer was 2xx with a body that is not JSON
UnparsableBody(call) == call.last.ok /\ call.last.kind = "raw"

\* the merge of an update reads a property of an undefined field
MergeFails(call) ==
    /\ call.name = "update_timesheet"
    /\ call.existing # None
    /\ MergeTypeError(call.args, Get(call.existing)) # None

UnexpectedFailure(call) ==
    \/ UnparsableBody(call)
    \/ MergeFails(call)
    \/ call.outcome.error.name \in {"SyntaxError", "TypeError"}

C24_UnexpectedFailureIsFailedResult ==
    /\ [](\A c \in Calls :
            UnexpectedFailure(calls[c]) =>
                /\ calls[c].pc = "done"
                /\ FailedResult(calls[c].outcome)
                /\ calls[c].outcome.error.name \in {"SyntaxError", "TypeError"}
                /\ server = "connected")
    /\ [][\A c \in Calls :
            (UnexpectedFailure(calls[c]) /\ calls'[c] # calls[c]) =>
                /\ calls'[c] = IdleCall
                /\ server' = "connected"
                /\ employeeId' = employeeId]_vars

\* the record came back as {} and the merge could not read its DateCreated
C24_Witness ==
    \E c \in Calls :
        /\ MergeFails(calls[c])
        /\ Get(calls[c].existing) = EmptyDetails
        /\ calls[c].reqs = <<"GetEditTimesheetsView">>
        /\ calls[c].outcome.error.name = "TypeError"
        /\ FailedResult(calls[c].outcome)

(***************************************************************************)
(* C25: a 2xx answer with an empty body is an empty structure for the      *)
(* transport, never an error of the transport; delete_timesheet and        *)
(* update_timesheet report success when their delete / save request is     *)
(* answered 2xx with no body.                                              *)
(***************************************************************************)
EmptyOk(call) == call.last.ok /\ call.last.kind = "empty"

C25_EmptyBodyIsNotAnError ==
    \A c \in Calls :
        EmptyOk(calls[c]) =>
            /\ calls[c].outcome.error.name \notin {"Error", "SyntaxError"}
            /\ (/\ calls[c].name \in {"delete_timesheet", "update_timesheet"}
                /\ calls[c].last.endpoint \in {"DeleteTimesheet",
                                               "SaveTimesheet?isEdit=true"})
               =>
                  /\ calls[c].pc = "done"
                  /\ calls[c].outcome = Success

\* the delete request was answered 200 with no body
C25_Witness ==
    \E c \in Calls :
        /\ calls[c].name = "delete_timesheet"
        /\ calls[c].last.endpoint = "DeleteTimesheet"
        /\ EmptyOk(calls[c])
        /\ calls[c].last.status = 200
        /\ calls[c].outcome = Success

(***************************************************************************)
(* C26: in update_timesheet a break_minutes override of 0 wins over the    *)
(* break of the existing record: the submitted break is 0 and TimeBillable *)
(* and TimeTotal are both the span of the merged times; with no            *)
(* break_minutes the TimeLess minutes of the existing record are kept.     *)
(***************************************************************************)
\* end - start of the merged times of an update, in minutes
MergedSpan(call) ==
    LET m == Merged(call.args, Get(call.existing))
    IN  MinutesOfDay(m.endTime) - MinutesOfDay(m.startTime)

C26_ZeroBreakOverrideWins ==
    \A c \in Calls :
        (UpdateMerged(calls[c]) /\ calls[c].payload # None) =>
            LET sent     == Get(calls[c].payload)
                existing == Get(calls[c].existing)
                span     == MergedSpan(calls[c])
            IN  /\ calls[c].args.break_minutes = Some(0) =>
                      /\ sent.TimeLess = Frac(0, 1)
                      /\ sent.TimeBillable = Frac(span, 60)
                      /\ sent.TimeTotal = Frac(span, 60)
                /\ (/\ calls[c].args.break_minutes = None
                    /\ existing.TimeLess # None) =>
                      /\ sent.TimeLess = Frac(Get(existing.TimeLess), 60)
                      /\ sent.TimeBillable
                            = Frac(span - Get(existing.TimeLess), 60)
                      /\ sent.TimeTotal = Frac(span, 60)

\* a record with a break of 60 minutes has its break set to 0
C26_Witness ==
    \E c \in Calls :
        /\ UpdateMerged(calls[c])
        /\ calls[c].args.break_minutes = Some(0)
        /\ Get(calls[c].existing).TimeLess = Some(60)
        /\ calls[c].pc = "done"
        /\ calls[c].outcome = Success
        /\ Get(calls[c].payload).TimeLess = Frac(0, 1)
        /\ Get(calls[c].payload).TimeBillable = Get(calls[c].payload).TimeTotal

(***************************************************************************)
(* C27: when an identity-resolution request is answered non-2xx the        *)
(* identity cache stays unset (null), and a call that needs the identity   *)
(* while the cache is unset issues an identity-resolution request of its   *)
(* own: nothing of the failed attempt is reused.                           *)
(***************************************************************************)
IdentityFailed(call) ==
    call.last.endpoint = "GetEmployeeID" /\ RemoteFailure(call)

\* the call has come, in this step, to the getEmployeeId() of its handler
ReachesIdentity(c) ==
    \/ /\ calls[c].pc = "idle"
       /\ calls'[c].name \in {"get_timesheet_defaults", "list_timesheets",
                              "create_timesheet"}
       /\ calls'[c].pc # "done"
    \/ /\ calls[c].pc = "await_existing"
       /\ calls'[c].pc # "done"

C27_FailedIdentityNotCached ==
    /\ [](\A c \in Calls :
            IdentityFailed(calls[c]) =>
                /\ employeeId = Null
                /\ calls[c].pc = "done"
                /\ calls[c].empId = None /\ calls[c].payload = None)
    /\ [][\A c \in Calls :
            (employeeId = Null /\ ReachesIdentity(c)) =>
                /\ calls'[c].pc = "await_identity"
                /\ Pending(calls'[c]) = "GetEmployeeID"
                /\ employeeId' = Null]_vars

\* the identity request of a list_timesheets call was answered 401; the
\* cache is still null
C27_Witness ==
    \E c \in Calls :
        /\ calls[c].name = "list_timesheets"
        /\ IdentityFailed(calls[c])
        /\ calls[c].last.status = 401
        /\ FailedResult(calls[c].outcome)
        /\ employeeId = Null

(***************************************************************************)
(* C28: list_clients, list_projects, list_categories, list_locations,      *)
(* get_timesheet and delete_timesheet never issue an identity-resolution   *)
(* request, issue at most one request, and no step of theirs changes the   *)
(* identity cache, whether they succeed or fail.                           *)
(***************************************************************************)
IdentityFreeTools ==
    {"list_clients", "list_projects", "list_categories", "list_locations",
     "get_timesheet", "delete_timesheet"}

C28_IdentityFreeTools ==
    /\ [](\A c \in Calls :
            calls[c].name \in IdentityFreeTools =>
                /\ ~Submitted(calls[c], "GetEmployeeID")
                /\ Len(calls[c].reqs) <= 1
                /\ calls[c].pc \in {"await_final", "done"})
    /\ [][\A c \in Calls :
            (/\ calls'[c] # calls[c]
             /\ \/ calls[c].name \in IdentityFreeTools
                \/ calls'[c].name \in IdentityFreeTools) =>
                employeeId' = employeeId]_vars

\* a get_timesheet call has failed on a process whose cache is filled: the
\* cache is as it was
C28_Witness ==
    \E c \in Calls :
        /\ calls[c].name = "get_timesheet"
        /\ calls[c].reqs = <<"GetEditTimesheetsView">>
        /\ RemoteFailure(calls[c])
        /\ calls[c].pc = "done"
        /\ employeeId = Some(RemoteEmpID)

(***************************************************************************)
(* C29: a write request is issued only after every prerequisite request of *)
(* the same call has succeeded.  update_timesheet issues no replace-record *)
(* request when the fetch of the existing record or the identity           *)
(* resolution failed; create_timesheet issues no create-record request     *)
(* when the identity resolution or the rate lookup failed.                 *)
(***************************************************************************)
WriteRequests == {"SaveTimesheet?isEdit=false", "SaveTimesheet?isEdit=true"}

IssuesWrite(c) ==
    /\ calls'[c].reqs # calls[c].reqs
    /\ calls'[c] # IdleCall
    /\ Pending(calls'[c]) \in WriteRequests

C29_WriteOnlyAfterPrerequisites ==
    /\ [](\A c \in Calls :
            (RemoteFailure(calls[c])
             /\ calls[c].last.endpoint \notin WriteRequests) =>
                /\ ~Submitted(calls[c], "SaveTimesheet?isEdit=false")
                /\ ~Submitted(calls[c], "SaveTimesheet?isEdit=true")
                /\ calls[c].payload = None)
    /\ [][\A c \in Calls :
            IssuesWrite(c) =>
                /\ employeeId' # Null
                /\ calls'[c].last.ok /\ calls'[c].last.status = 200
                /\ calls'[c].name = "create_timesheet" =>
                      /\ calls'[c].last.endpoint = "GetClientRate"
                      /\ calls'[c].rateInfo # None
                /\ calls'[c].name = "update_timesheet" =>
                      /\ calls'[c].last.endpoint
                            \in {"GetEditTimesheetsView", "GetEmployeeID"}
                      /\ calls'[c].existing # None]_vars

\* the identity resolution of an update failed after the record had been
\* fetched: nothing was saved
C29_Witness ==
    \E c \in Calls :
        /\ calls[c].name = "update_timesheet"
        /\ calls[c].reqs = <<"GetEditTimesheetsView", "GetEmployeeID">>
        /\ IdentityFailed(calls[c])
        /\ calls[c].existing # None
        /\ calls[c].payload = None
        /\ calls[c].pc = "done"

(***************************************************************************)
(* C30: the EmpID of the payload update_timesheet submits is the resolved  *)
(* identity of the caller, the value held by the identity cache, and not   *)
(* the EmpID stored in the fetched record, also when the two differ.       *)
(***************************************************************************)
C30_UpdateCarriesCallerIdentity ==
    \A c \in Calls :
        (calls[c].name = "update_timesheet" /\ calls[c].payload # None) =>
            /\ employeeId # Null
            /\ Get(calls[c].payload).EmpID = employeeId
            /\ Get(calls[c].payload).EmpID = calls[c].empId

\* a record of employee E2 has been updated by E1 and saved as E1's
C30_Witness ==
    \E c \in Calls :
        /\ calls[c].name = "update_timesheet"
        /\ calls[c].pc = "done"
        /\ calls[c].outcome = Success
        /\ Get(calls[c].existing).EmpID = Some("E2")
        /\ employeeId = Some(RemoteEmpID)
        /\ Get(calls[c].payload).EmpID = Some(RemoteEmpID)

====
